---- MODULE Spec2Model ----
(***************************************************************************)
(* Model of reporig's configuration profiles (src/src/profileManager.ts):  *)
(* the profile store, the snapshot of the git configuration, the           *)
(* comparison of a profile with the current configuration, and the         *)
(* application of a profile to the git configuration.                      *)
(*                                                                         *)
(* Strings that the code parses or concatenates (keys, values, lines of    *)
(* `git config --list`, composite map keys) are sequences of one-character *)
(* strings, so that split, trim and concatenation are computed.            *)
(***************************************************************************)
EXTENDS Integers, Sequences, FiniteSets, TLC

(***************************************************************************)
(* Bounds of the model.                                                    *)
(***************************************************************************)
\* longest configs list of a profile chosen as an input
MaxConfigs == 2
\* largest number of entries (local plus global) of an initial git configuration
MaxBackend == 2
\* largest number of profiles in the store
MaxProfiles == 2
\* largest number of ids generated by one manager
MaxIds == 3
\* latest reading of the clock
MaxTime == 1

(***************************************************************************)
(* Strings.                                                                *)
(***************************************************************************)
Scopes == {"local", "global"}

\* the text of a scope, as interpolated in `${c.key}:${c.scope}`
ScopeStr(scope) ==
    IF scope = "local" THEN <<"l", "o", "c", "a", "l">>
                       ELSE <<"g", "l", "o", "b", "a", "l">>

\* the entries a git configuration is made of: a key with a plain value,
\* the same key with a value that has a leading blank and an "=", and
\* another key
BackendEntries ==
    {[key |-> <<"k", "1">>, value |-> <<"a">>],
     [key |-> <<"k", "1">>, value |-> <<" ", "a", "=", "b">>],
     [key |-> <<"k", "2">>, value |-> <<"a">>]}

\* String.prototype.trim, for the blank
RECURSIVE TrimStart(_)
TrimStart(s) ==
    IF s # <<>> /\ Head(s) = " " THEN TrimStart(Tail(s)) ELSE s

RECURSIVE TrimEnd(_)
TrimEnd(s) ==
    IF s # <<>> /\ s[Len(s)] = " " THEN TrimEnd(SubSeq(s, 1, Len(s) - 1)) ELSE s

Trim(s) == TrimEnd(TrimStart(s))

\* String.prototype.includes, for one character
Includes(s, ch) == \E i \in 1..Len(s) : s[i] = ch

\* position of the first occurrence of ch in s (s includes ch)
IndexOf(s, ch) ==
    CHOOSE i \in 1..Len(s) : s[i] = ch /\ \A j \in 1..(i - 1) : s[j] # ch

SeqsUpTo(S, n) == UNION {[1..m -> S] : m \in 0..n}

(***************************************************************************)
(* Data model.                                                             *)
(***************************************************************************)
\* GitConfigItem: the configs a profile is given
ConfigItems ==
    {[key |-> e.key, value |-> e.value, scope |-> scope] :
        e \in BackendEntries, scope \in Scopes}

ConfigLists == SeqsUpTo(ConfigItems, MaxConfigs)

\* the git configurations the program may find: a key may have several values
Backends ==
    {[local |-> l, global |-> g] :
        <<l, g>> \in {x \in SeqsUpTo(BackendEntries, MaxBackend)
                              \X SeqsUpTo(BackendEntries, MaxBackend) :
                         Len(x[1]) + Len(x[2]) <= MaxBackend}}

\* the git configurations an applied profile starts from
SmallBackends == {be \in Backends : Len(be.local) + Len(be.global) < MaxBackend}

\* the configs lists given to createProfile in the life of a store
StoreConfigs ==
    {l \in ConfigLists :
        Len(l) <= 1 /\ \A i \in 1..Len(l) :
            l[i] = [key |-> <<"k", "1">>, value |-> <<"a">>, scope |-> "local"]}

\* no profile id: activeProfile undefined
NoId == <<>>

Names == {"n1"}
Descriptions == {"d1"}
TagLists == {<<"work">>}

VARIABLES
    backend,   \* the git configuration: scope -> sequence of [key, value]
    hasRoot,   \* a workspace root is resolvable
    storage,   \* ProfileManager.storage, the in-memory ProfileStorage
    file,      \* the content of profiles.json
    now,       \* the clock read by Date.now() and new Date()
    minted,    \* the random suffix of the next id; the suffixes are numbered,
               \* and follow one another unless the suffix is drawn again
    issued,    \* history: the ids generated so far
    other,     \* the storage of the main webview's static ProfileManager
    history,   \* what loadConfigHistory reads from config-history.json: its
               \* list of changes, the empty list when there is no file
    ap,        \* the applyProfile call in flight, or the last one
    last       \* the last operation and what it returned

vars == <<backend, hasRoot, history, storage, file, now, minted, issued, other, ap, last>>

(***************************************************************************)
(* getCurrentConfigs: `git config --list` and its parsing.                 *)
(***************************************************************************)
\* stdout of `git config --<scope> --list`, as its lines "key=value"
ListOutput(entries) ==
    [i \in 1..Len(entries) |-> entries[i].key \o <<"=">> \o entries[i].value]

\* one accepted line: split on "=", the first part is the key, the rest
\* joined by "=" is the value, both trimmed
ParseLine(line, scope) ==
    LET i == IndexOf(line, "=")
    IN  [key   |-> Trim(SubSeq(line, 1, i - 1)),
         value |-> Trim(SubSeq(line, i + 1, Len(line))),
         scope |-> scope]

\* the forEach over the lines: blank lines and lines without "=" are skipped
RECURSIVE ParseLines(_, _)
ParseLines(lines, scope) ==
    IF lines = <<>> THEN <<>>
    ELSE LET line == Head(lines)
             rest == ParseLines(Tail(lines), scope)
         IN  IF Trim(line) # <<>> /\ Includes(line, "=")
             THEN <<ParseLine(line, scope)>> \o rest
             ELSE rest

\* GetCurrentConfigs, were the two list commands in one try block
GetCurrentConfigsOneTry(be, root, localOk, globalOk) ==
    IF ~root \/ ~localOk THEN <<>>
    ELSE ParseLines(ListOutput(be.local), "local")
         \o (IF globalOk THEN ParseLines(ListOutput(be.global), "global") ELSE <<>>)

\* GetCurrentConfigs, were the global scope listed also without a root
GetCurrentConfigsGlobalAlways(be, root, localOk, globalOk) ==
    (IF root /\ localOk THEN ParseLines(ListOutput(be.local), "local") ELSE <<>>)
    \o (IF globalOk THEN ParseLines(ListOutput(be.global), "global") ELSE <<>>)

\* getCurrentConfigs; localOk and globalOk tell whether each list command
\* succeeded (a failing command contributes no item)
GetCurrentConfigs(be, root, localOk, globalOk) ==
    IF ~root THEN <<>>
    ELSE (IF localOk THEN ParseLines(ListOutput(be.local), "local") ELSE <<>>)
         \o (IF globalOk THEN ParseLines(ListOutput(be.global), "global") ELSE <<>>)

(***************************************************************************)
(* compareProfileWithCurrent.                                              *)
(***************************************************************************)
\* `${c.key}:${c.scope}`
CompositeKey(c) == c.key \o <<":">> \o ScopeStr(c.scope)

\* new Map(list.map(c => [`${c.key}:${c.scope}`, c.value])): a later entry
\* with the same composite key replaces the value of an earlier one
RECURSIVE MapOf(_)
MapOf(cs) ==
    IF cs = <<>> THEN [k \in {} |-> <<>>]
    ELSE LET m == MapOf(SubSeq(cs, 1, Len(cs) - 1))
             c == cs[Len(cs)]
         IN  [k \in (DOMAIN m) \cup {CompositeKey(c)} |->
                 IF k = CompositeKey(c) THEN c.value ELSE m[k]]

\* ToAdd, were the key looked up whatever its scope
RECURSIVE ToAddAnyScope(_, _)
ToAddAnyScope(configs, currentMap) ==
    IF configs = <<>> THEN <<>>
    ELSE LET config == Head(configs)
             rest == ToAddAnyScope(Tail(configs), currentMap)
         IN  IF \A scope \in Scopes :
                   CompositeKey([config EXCEPT !.scope = scope]) \notin DOMAIN currentMap
             THEN <<config>> \o rest
             ELSE rest

\* the first loop: toAdd, over the profile's configs
RECURSIVE ToAdd(_, _)
ToAdd(configs, currentMap) ==
    IF configs = <<>> THEN <<>>
    ELSE LET config == Head(configs)
             rest == ToAdd(Tail(configs), currentMap)
         IN  IF CompositeKey(config) \notin DOMAIN currentMap
             THEN <<config>> \o rest
             ELSE rest

\* ToUpdate, were oldValue and newValue exchanged
RECURSIVE ToUpdateSwapped(_, _)
ToUpdateSwapped(configs, currentMap) ==
    IF configs = <<>> THEN <<>>
    ELSE LET config == Head(configs)
             key == CompositeKey(config)
             rest == ToUpdateSwapped(Tail(configs), currentMap)
         IN  IF key \in DOMAIN currentMap /\ currentMap[key] # config.value
             THEN <<[key |-> config.key, scope |-> config.scope,
                     oldValue |-> config.value, newValue |-> currentMap[key]]>>
                  \o rest
             ELSE rest

\* the first loop: toUpdate, over the profile's configs
RECURSIVE ToUpdate(_, _)
ToUpdate(configs, currentMap) ==
    IF configs = <<>> THEN <<>>
    ELSE LET config == Head(configs)
             key == CompositeKey(config)
             rest == ToUpdate(Tail(configs), currentMap)
         IN  IF key \in DOMAIN currentMap /\ currentMap[key] # config.value
             THEN <<[key |-> config.key, scope |-> config.scope,
                     oldValue |-> currentMap[key], newValue |-> config.value]>>
                  \o rest
             ELSE rest

\* ToRemove, were a key of the profile to protect the key in both scopes
RECURSIVE ToRemoveAnyScope(_, _)
ToRemoveAnyScope(currentConfigs, profileMap) ==
    IF currentConfigs = <<>> THEN <<>>
    ELSE LET config == Head(currentConfigs)
             rest == ToRemoveAnyScope(Tail(currentConfigs), profileMap)
         IN  IF \A scope \in Scopes :
                   CompositeKey([config EXCEPT !.scope = scope]) \notin DOMAIN profileMap
             THEN <<config>> \o rest
             ELSE rest

\* the second loop: toRemove, over the current configs
RECURSIVE ToRemove(_, _)
ToRemove(currentConfigs, profileMap) ==
    IF currentConfigs = <<>> THEN <<>>
    ELSE LET config == Head(currentConfigs)
             rest == ToRemove(Tail(currentConfigs), profileMap)
         IN  IF CompositeKey(config) \notin DOMAIN profileMap
             THEN <<config>> \o rest
             ELSE rest

CompareProfileWithCurrent(configs, currentConfigs) ==
    LET currentMap == MapOf(currentConfigs)
        profileMap == MapOf(configs)
    IN  [toAdd    |-> ToAdd(configs, currentMap),
         toUpdate |-> ToUpdate(configs, currentMap),
         toRemove |-> ToRemove(currentConfigs, profileMap)]

EmptyComparison == [toAdd |-> <<>>, toUpdate |-> <<>>, toRemove |-> <<>>]

(***************************************************************************)
(* The store.                                                              *)
(***************************************************************************)
\* FindIndex, were the -1 of a missing id used as an index from the end
FindIndexFromEnd(profiles, id) ==
    IF \E i \in 1..Len(profiles) : profiles[i].id = id
    THEN CHOOSE i \in 1..Len(profiles) :
            profiles[i].id = id /\ \A j \in 1..(i - 1) : profiles[j].id # id
    ELSE Len(profiles)

\* index of the first profile with this id, 0 when there is none (findIndex)
FindIndex(profiles, id) ==
    IF \E i \in 1..Len(profiles) : profiles[i].id = id
    THEN CHOOSE i \in 1..Len(profiles) :
            profiles[i].id = id /\ \A j \in 1..(i - 1) : profiles[j].id # id
    ELSE 0

\* getProfile(id) finds a profile
HasProfile(st, id) == FindIndex(st.profiles, id) # 0

\* getProfile(id), when it finds one
GetProfile(st, id) == st.profiles[FindIndex(st.profiles, id)]

\* getActiveProfile: NoId stands for undefined
GetActiveProfile(st) ==
    IF st.activeProfile = NoId THEN NoId
    ELSE IF HasProfile(st, st.activeProfile)
         THEN GetProfile(st, st.activeProfile).id
         ELSE NoId

\* generateId: the timestamp and the random suffix; the suffix is taken not
\* to repeat, so it is numbered by the generation
GenerateId(t, n) == <<t, n>>

\* getIconForProfile, on the first tag; a tag of the model is one of the
\* words the code looks for in it
GetIconForProfile(tags) ==
    IF tags = <<>> THEN "symbol-misc"
    ELSE IF tags[1] \in {"work", "office"} THEN "briefcase"
    ELSE IF tags[1] \in {"personal", "home"} THEN "home"
    ELSE IF tags[1] \in {"opensource", "oss"} THEN "github"
    ELSE IF tags[1] = "client" THEN "organization"
    ELSE "symbol-misc"

\* the profile record built by createProfile
NewProfile(id, name, description, configs, tags, t) ==
    [id |-> id, name |-> name, description |-> description,
     configs |-> configs, created |-> t, modified |-> t,
     tags |-> tags, icon |-> GetIconForProfile(tags)]

\* the store after `this.storage.lastModified = new Date()` in saveStorage
Stamped(st, t) == [st EXCEPT !.lastModified = t]

\* Saved, were the profiles of the file kept and the new ones of the store
\* added to them
SavedMerged(st, t, writeOk, old) ==
    IF writeOk
    THEN Stamped([st EXCEPT !.profiles =
                     old.profiles \o
                     SelectSeq(st.profiles,
                               LAMBDA q : \A i \in 1..Len(old.profiles) :
                                             old.profiles[i].id # q.id)], t)
    ELSE old

\* Saved, were a failing write to leave no document
SavedOrLost(st, t, writeOk, old) ==
    IF writeOk THEN Stamped(st, t)
    ELSE [profiles |-> <<>>, activeProfile |-> NoId, lastModified |-> -1]

\* Saved, were the document serialised before lastModified is stamped
SavedBeforeStamp(st, t, writeOk, old) == IF writeOk THEN st ELSE old

\* profiles.json after saveStorage: written in full, or left as it was when
\* the write fails
Saved(st, t, writeOk, old) == IF writeOk THEN Stamped(st, t) ELSE old

\* SaveThrows, were the write error caught and logged as loadStorage does
SaveSwallows(writeOk) == FALSE

\* saveStorage throws `Failed to save profiles` when the write fails
SaveThrows(writeOk) == ~writeOk

\* the ids an operation may be called with: those of the store and one more
MissingId == <<0, 99>>
CallIds == {storage.profiles[i].id : i \in 1..Len(storage.profiles)} \cup {MissingId}

\* profiles.json does not exist
AbsentFile == [profiles |-> <<>>, activeProfile |-> NoId, lastModified |-> -1]

\* RepoRigMainWebviewProvider.profileManager is undefined: createOrShow has
\* not constructed the second manager
NotConstructed == [profiles |-> <<>>, activeProfile |-> NoId, lastModified |-> -2]

\* the store that loadStorage returns where it finds none to read
EmptyStore(t) == [profiles |-> <<>>, activeProfile |-> NoId, lastModified |-> t]

\* profiles.json holds a text that JSON.parse refuses
CorruptFile == [text |-> "{"]

\* JSON.parse(data) returns: the text is that of a store
Parses(f) == "profiles" \in DOMAIN f

\* LoadStorage, were a text that does not parse taken for the store
LoadStorageUnguarded(f, t) == IF f = AbsentFile THEN EmptyStore(t) ELSE f

\* loadStorage: the parsed content of the file when it exists and parses,
\* else an empty store stamped with the time of the load
LoadStorage(f, t) ==
    IF f = AbsentFile \/ ~Parses(f) THEN EmptyStore(t) ELSE f

\* the scopes getCurrentConfigs lists: it returns before the two commands
\* when there is no root
Queried(root) == IF root THEN {"local", "global"} ELSE {}

\* what the list commands of one getCurrentConfigs call may do: <<local
\* succeeded, global succeeded>>; without a root none is issued
ListOutcomes(root) == IF root THEN BOOLEAN \X BOOLEAN ELSE {<<TRUE, TRUE>>}

\* the snapshot or the application that this call directly follows, when it
\* returned normally for the same profile with no failing list command
Follows(l, id) ==
    IF l.op \in {"createFromCurrent", "apply"} /\ l.id = id /\ l.ok
       /\ l.lists = <<TRUE, TRUE>>
    THEN l.op
    ELSE "other"

\* no applyProfile call was made
IdleApply ==
    [pc |-> "idle", id |-> NoId, configs |-> <<>>, idx |-> 1, errors |-> <<>>,
     attempts |-> <<>>, before |-> [local |-> <<>>, global |-> <<>>]]

NoOperation ==
    [op |-> "none", id |-> NoId, ok |-> TRUE, lists |-> <<TRUE, TRUE>>, error |-> ""]

(***************************************************************************)
(* `git config --<scope> "<key>" "<value>"`, the command applyProfile      *)
(* runs for one config.                                                    *)
(***************************************************************************)
\* positions of the key in the configuration of one scope
Occurrences(entries, key) == {i \in 1..Len(entries) : entries[i].key = key}

\* git refuses to replace a key that has several values by one value
CanSet(be, scope, key) == Cardinality(Occurrences(be[scope], key)) <= 1

\* the configuration after the command succeeded: the value of the key is
\* replaced where it stands, or the entry is added at the end
GitConfigSet(be, scope, key, value) ==
    LET entries == be[scope]
        occ == Occurrences(entries, key)
    IN  [be EXCEPT ![scope] =
            IF occ = {}
            THEN Append(entries, [key |-> key, value |-> value])
            ELSE [i \in 1..Len(entries) |->
                    IF i \in occ THEN [key |-> key, value |-> value]
                                 ELSE entries[i]]]

(***************************************************************************)
(* Operations.                                                             *)
(***************************************************************************)
\* compareProfiles(id): the two list commands read the git configuration,
\* here at one instant
CompareProfiles(id) ==
    /\ IF ~HasProfile(storage, id)
       THEN last' = [op |-> "compare", id |-> id, ok |-> FALSE,
                     lists |-> <<TRUE, TRUE>>, error |-> "NotFound"]
       ELSE \E lists \in ListOutcomes(hasRoot) :
              LET current == GetCurrentConfigs(backend, hasRoot, lists[1], lists[2])
                  configs == GetProfile(storage, id).configs
              IN  last' = [op |-> "compare", id |-> id, ok |-> TRUE,
                           lists |-> lists, error |-> "",
                           queried |-> Queried(hasRoot),
                           follows |-> Follows(last, id),
                           configs |-> configs,
                           current |-> current,
                           result |-> CompareProfileWithCurrent(configs, current)]
    /\ UNCHANGED <<backend, hasRoot, history, storage, file, now, minted, issued, other, ap>>

\* createProfile, also as the second half of createProfileFromCurrent
CreateWith(op, name, description, configs, tags, lists, writeOk) ==
    LET id == GenerateId(now, minted)
        profile == NewProfile(id, name, description, configs, tags, now)
        pushed == [storage EXCEPT !.profiles = Append(@, profile)]
    IN  /\ Len(storage.profiles) < MaxProfiles
        /\ minted < MaxIds
        /\ minted' = minted + 1
        /\ issued' = issued \cup {id}
        /\ storage' = Stamped(pushed, now)
        /\ file' = Saved(pushed, now, writeOk, file)
        /\ last' = [op |-> op, id |-> id, ok |-> ~SaveThrows(writeOk), lists |-> lists,
                    error |-> IF SaveThrows(writeOk) THEN "SaveFailed" ELSE "",
                    wrote |-> writeOk,
                    fresh |-> id \notin issued,
                    queried |-> IF op = "createFromCurrent" THEN Queried(hasRoot)
                                                            ELSE {}]
        /\ UNCHANGED <<backend, hasRoot, history, now, other, ap>>

\* createProfile(name, description, configs, tags)
CreateProfile ==
    \E name \in Names, description \in Descriptions, configs \in StoreConfigs,
       tags \in TagLists, writeOk \in BOOLEAN :
        CreateWith("create", name, description, configs, tags, <<TRUE, TRUE>>, writeOk)

\* createProfileFromCurrent(name, description, tags): the list commands, read
\* at one instant, then createProfile
CreateProfileFromCurrent ==
    \E name \in Names, description \in Descriptions, tags \in TagLists,
       lists \in ListOutcomes(hasRoot), writeOk \in BOOLEAN :
        CreateWith("createFromCurrent", name, description,
                   GetCurrentConfigs(backend, hasRoot, lists[1], lists[2]),
                   tags, lists, writeOk)

\* ActiveAfterDelete, were the pointer not cleared
ActiveKeptAfterDelete(st, id) == st.activeProfile

\* the active pointer after deleteProfile(id) removed the profile
ActiveAfterDelete(st, id) ==
    IF st.activeProfile = id THEN NoId ELSE st.activeProfile

\* Splice, were the first profile the one removed
SpliceFirst(profiles, index) == Tail(profiles)

\* the list after splice(index, 1)
Splice(profiles, index) ==
    SubSeq(profiles, 1, index - 1) \o SubSeq(profiles, index + 1, Len(profiles))

\* deleteProfile(id)
DeleteProfile(id) ==
    LET index == FindIndex(storage.profiles, id)
        removed == [storage EXCEPT !.profiles = Splice(@, index),
                                   !.activeProfile = ActiveAfterDelete(storage, id)]
    IN  IF index = 0
        THEN /\ last' = [op |-> "delete", id |-> id, ok |-> FALSE,
                         lists |-> <<TRUE, TRUE>>, error |-> "NotFound"]
             /\ UNCHANGED <<backend, hasRoot, history, storage, file, now, minted, issued, other, ap>>
        ELSE \E writeOk \in BOOLEAN :
             /\ storage' = Stamped(removed, now)
             /\ file' = Saved(removed, now, writeOk, file)
             /\ last' = [op |-> "delete", id |-> id, ok |-> ~SaveThrows(writeOk),
                         lists |-> <<TRUE, TRUE>>,
                         error |-> IF SaveThrows(writeOk) THEN "SaveFailed" ELSE "",
                         wrote |-> writeOk,
                         activeBefore |-> storage.activeProfile]
             /\ UNCHANGED <<backend, hasRoot, history, now, minted, issued, other, ap>>

\* Assigned, were the icon chosen again for the tags of the update
AssignedIconChosen(profile, updates, t) ==
    [f \in DOMAIN profile |->
        IF f = "modified" THEN t
        ELSE IF f \in DOMAIN updates THEN updates[f]
        ELSE IF f = "icon" /\ "tags" \in DOMAIN updates
             THEN GetIconForProfile(updates.tags)
        ELSE profile[f]]

\* Assigned, were the fields of the update to win over the new modified
AssignedUpdatesLast(profile, updates, t) ==
    [f \in DOMAIN profile |->
        IF f \in DOMAIN updates THEN updates[f]
        ELSE IF f = "modified" THEN t
        ELSE profile[f]]

\* updateProfile(id, updates): Object.assign(profile, updates, {modified}),
\* the later source winning, then saveStorage
Assigned(profile, updates, t) ==
    [f \in DOMAIN profile |->
        IF f = "modified" THEN t
        ELSE IF f \in DOMAIN updates THEN updates[f]
        ELSE profile[f]]

UpdateProfile(id, updates) ==
    LET index == FindIndex(storage.profiles, id)
    IN  IF index = 0
        THEN /\ last' = [op |-> "update", id |-> id, ok |-> FALSE,
                         lists |-> <<TRUE, TRUE>>, error |-> "NotFound"]
             /\ UNCHANGED <<backend, hasRoot, history, storage, file, now, minted, issued, other, ap>>
        ELSE \E writeOk \in BOOLEAN :
             LET updated == [storage EXCEPT
                                !.profiles[index] = Assigned(@, updates, now)]
             IN  /\ storage' = Stamped(updated, now)
                 /\ file' = Saved(updated, now, writeOk, file)
                 /\ last' = [op |-> "update", id |-> id, ok |-> ~SaveThrows(writeOk),
                             lists |-> <<TRUE, TRUE>>,
                             error |-> IF SaveThrows(writeOk) THEN "SaveFailed" ELSE "",
                             wrote |-> writeOk,
                             updates |-> updates]
                 /\ UNCHANGED <<backend, hasRoot, history, now, minted, issued, other, ap>>

(***************************************************************************)
(* exportProfile and importProfile.  A JSON value is a record tagged with  *)
(* its type; a payload is the text given to importProfile, as the value    *)
(* JSON.parse gives for it when it parses.                                 *)
(***************************************************************************)
JsonUndefined == [t |-> "undefined"]
JsonString(str) == [t |-> "string", v |-> str]
JsonArray(list) == [t |-> "array", v |-> list]
\* an object that is not an array, with its members
JsonObject == [t |-> "object", v |-> <<>>]

\* the value is truthy: `!x` is false
Truthy(json) ==
    CASE json.t = "undefined" -> FALSE
      [] json.t = "string" -> json.v # ""
      [] OTHER -> TRUE

\* Array.isArray
IsArray(json) == json.t = "array"

\* JSON.stringify(profile, null, 2)
Stringify(profile) ==
    [parses |-> TRUE, id |-> profile.id, name |-> JsonString(profile.name),
     description |-> profile.description, configs |-> JsonArray(profile.configs),
     created |-> profile.created, modified |-> profile.modified,
     tags |-> profile.tags, icon |-> profile.icon]

\* ExportProfile, were the export to save the store
ExportProfileSaving(id) ==
    /\ IF ~HasProfile(storage, id)
       THEN /\ last' = [op |-> "export", id |-> id, ok |-> FALSE,
                        lists |-> <<TRUE, TRUE>>, error |-> "NotFound"]
            /\ UNCHANGED <<storage, file>>
       ELSE /\ last' = [op |-> "export", id |-> id, ok |-> TRUE,
                        lists |-> <<TRUE, TRUE>>, error |-> "",
                        data |-> Stringify(GetProfile(storage, id))]
            /\ storage' = Stamped(storage, now)
            /\ file' = Stamped(storage, now)
    /\ UNCHANGED <<backend, hasRoot, history, now, minted, issued, other, ap>>

\* exportProfile(id)
ExportProfile(id) ==
    /\ IF ~HasProfile(storage, id)
       THEN last' = [op |-> "export", id |-> id, ok |-> FALSE,
                     lists |-> <<TRUE, TRUE>>, error |-> "NotFound"]
       ELSE last' = [op |-> "export", id |-> id, ok |-> TRUE,
                     lists |-> <<TRUE, TRUE>>, error |-> "",
                     data |-> Stringify(GetProfile(storage, id))]
    /\ UNCHANGED <<backend, hasRoot, history, storage, file, now, minted, issued, other, ap>>

\* ValidPayload, were configs only required to be present
ValidPayloadAnyConfigs(payload) ==
    Truthy(payload.name) /\ Truthy(payload.configs)

\* the validation of importProfile passes:
\* !(!profile.name || !profile.configs || !Array.isArray(profile.configs))
ValidPayload(payload) ==
    Truthy(payload.name) /\ Truthy(payload.configs) /\ IsArray(payload.configs)

\* the id of the imported profile: `id: this.generateId()` after the spread
ImportedId(payload, t, n) == GenerateId(t, n)

\* ImportedProfile, were the profile built as createProfile builds one, the
\* icon chosen for the tags
ImportedProfileAsCreated(payload, t, n) ==
    NewProfile(GenerateId(t, n), payload.name.v, payload.description,
               payload.configs.v, payload.tags, t)

\* { ...profile, id: this.generateId(), created: now, modified: now }
ImportedProfile(payload, t, n) ==
    [id |-> ImportedId(payload, t, n), name |-> payload.name.v,
     description |-> payload.description, configs |-> payload.configs.v,
     created |-> t, modified |-> t, tags |-> payload.tags, icon |-> payload.icon]

\* importProfile(jsonData); every error is thrown again as an import error
ImportProfile(payload) ==
    IF ~payload.parses \/ ~ValidPayload(payload)
    THEN /\ last' = [op |-> "import", id |-> NoId, ok |-> FALSE,
                     lists |-> <<TRUE, TRUE>>, error |-> "ImportFailed",
                     cause |-> IF payload.parses THEN "InvalidFormat" ELSE "Parse",
                     payload |-> payload]
         /\ UNCHANGED <<backend, hasRoot, history, storage, file, now, minted, issued, other, ap>>
    ELSE \E writeOk \in BOOLEAN :
         LET newProfile == ImportedProfile(payload, now, minted)
             pushed == [storage EXCEPT !.profiles = Append(@, newProfile)]
         IN  /\ Len(storage.profiles) < MaxProfiles
             /\ minted < MaxIds
             /\ minted' = minted + 1
             /\ issued' = issued \cup {newProfile.id}
             /\ storage' = Stamped(pushed, now)
             /\ file' = Saved(pushed, now, writeOk, file)
             /\ last' = [op |-> "import", id |-> newProfile.id,
                         ok |-> ~SaveThrows(writeOk),
                         lists |-> <<TRUE, TRUE>>,
                         error |-> IF SaveThrows(writeOk) THEN "ImportFailed" ELSE "",
                         cause |-> IF SaveThrows(writeOk) THEN "SaveFailed" ELSE "",
                         wrote |-> writeOk,
                         payload |-> payload,
                         fresh |-> newProfile.id \notin issued]
             /\ UNCHANGED <<backend, hasRoot, history, now, other, ap>>

(***************************************************************************)
(* The managers of one process: the one of the commands, constructed by    *)
(* activate, and the static one of the main webview, constructed by        *)
(* createOrShow.  Both read profiles.json when constructed and write it    *)
(* when they save.                                                         *)
(***************************************************************************)
\* activate: `new ProfileManager(context)`, at the start of a session
Activate ==
    /\ ap.pc # "loop"
    /\ storage' = LoadStorage(file, now)
    /\ ap' = IdleApply
    /\ last' = [op |-> "construct", id |-> NoId, ok |-> TRUE,
                lists |-> <<TRUE, TRUE>>, error |-> "", loaded |-> file]
    /\ UNCHANGED <<backend, hasRoot, history, file, now, minted, issued, other>>

\* profiles.json is damaged or removed between two sessions
Damage ==
    /\ \E f \in {AbsentFile, CorruptFile} : file' = f
    /\ UNCHANGED <<backend, hasRoot, history, storage, now, minted, issued, other, ap, last>>

\* the `createProfile` message of the main webview: createProfile of the
\* static manager; the handler reports an error to the webview
WebviewCreateProfile ==
    \E name \in Names, description \in Descriptions, configs \in StoreConfigs,
       tags \in TagLists, writeOk \in BOOLEAN :
        LET id == GenerateId(now, minted)
            profile == NewProfile(id, name, description, configs, tags, now)
            pushed == [other EXCEPT !.profiles = Append(@, profile)]
        IN  /\ other # NotConstructed
            /\ Len(other.profiles) < MaxProfiles
            /\ minted < MaxIds
            /\ minted' = minted + 1
            /\ issued' = issued \cup {id}
            /\ other' = Stamped(pushed, now)
            /\ file' = Saved(pushed, now, writeOk, file)
            /\ last' = [op |-> "webviewCreate", id |-> id,
                        ok |-> ~SaveThrows(writeOk), lists |-> <<TRUE, TRUE>>,
                        error |-> IF SaveThrows(writeOk) THEN "SaveFailed" ELSE "",
                        wrote |-> writeOk]
            /\ UNCHANGED <<backend, hasRoot, history, storage, now, ap>>

\* the `deleteProfile` message of the main webview: deleteProfile of the
\* static manager
WebviewDeleteProfile(id) ==
    LET index == FindIndex(other.profiles, id)
        removed == [other EXCEPT !.profiles = Splice(@, index),
                                 !.activeProfile = ActiveAfterDelete(other, id)]
    IN  /\ other # NotConstructed
        /\ IF index = 0
           THEN /\ last' = [op |-> "webviewDelete", id |-> id, ok |-> FALSE,
                            lists |-> <<TRUE, TRUE>>, error |-> "NotFound"]
                /\ UNCHANGED <<backend, hasRoot, history, storage, file, now, minted, issued, other, ap>>
           ELSE \E writeOk \in BOOLEAN :
                /\ other' = Stamped(removed, now)
                /\ file' = Saved(removed, now, writeOk, file)
                /\ last' = [op |-> "webviewDelete", id |-> id,
                            ok |-> ~SaveThrows(writeOk), lists |-> <<TRUE, TRUE>>,
                            error |-> IF SaveThrows(writeOk) THEN "SaveFailed" ELSE "",
                            wrote |-> writeOk]
                /\ UNCHANGED <<backend, hasRoot, history, storage, now, minted, issued, ap>>

(***************************************************************************)
(* The configuration history of the main webview: config-history.json of   *)
(* the workspace, a list of changes, the most recent first.                *)
(***************************************************************************)
\* the number of changes the history keeps
HistoryLimit == 50

\* history.unshift(change)
Unshift(list, change) == <<change>> \o list

\* Truncated, were the splice to remove the first changes of the list
TruncatedFromFront(list) ==
    IF Len(list) > HistoryLimit
    THEN SubSeq(list, Len(list) - HistoryLimit + 1, Len(list))
    ELSE list

\* `if (history.length > 50) history.splice(50)`: the changes from index 50
\* on are removed
Truncated(list) ==
    IF Len(list) > HistoryLimit THEN SubSeq(list, 1, HistoryLimit) ELSE list

\* the changes the save and delete handlers of the webview record
RecordedChanges ==
    {[key |-> <<"k", "1">>, value |-> <<"a">>, scope |-> "local", action |-> "created"]}

\* addConfigChangeToHistory(workspaceRoot, key, value, scope, action): the
\* history is read, the change is put first with the reading of the clock,
\* and the list is written; date and time are the same reading in the
\* format of the locale.  Without a root no path can be built and the call
\* fails
AddConfigChangeToHistory ==
    \E c \in RecordedChanges, writeOk \in BOOLEAN :
        LET change == [key |-> c.key, value |-> c.value, scope |-> c.scope,
                       action |-> c.action, timestamp |-> now]
            saved == hasRoot /\ writeOk
        IN  /\ history' = IF saved THEN Truncated(Unshift(history, change))
                                    ELSE history
            /\ last' = [op |-> "addConfigChangeToHistory", id |-> NoId, ok |-> saved,
                        lists |-> <<TRUE, TRUE>>,
                        error |-> IF saved THEN "" ELSE "HistoryNotSaved",
                        wrote |-> saved,
                        change |-> change,
                        length |-> Len(history)]
            /\ UNCHANGED <<backend, hasRoot, storage, file, now, minted, issued, other, ap>>

\* Math.random: the suffix of the next id is any of the suffixes, those of
\* earlier ids included
DrawSuffix ==
    /\ \E n \in 0..(MaxIds - 1) : minted' = n
    /\ UNCHANGED <<backend, hasRoot, history, storage, file, now, issued, other, ap, last>>

\* the clock advances
Tick ==
    /\ now < MaxTime
    /\ now' = now + 1
    /\ UNCHANGED <<backend, hasRoot, history, storage, file, minted, issued, other, ap, last>>

(***************************************************************************)
(* applyProfile: one call is followed from its start to its end; it is     *)
(* suspended while a git command runs.                                     *)
(***************************************************************************)
\* RootMissing, were a root required by the local configs only
RootMissingForLocal(configs, root) ==
    ~root /\ \E i \in 1..Len(configs) : configs[i].scope = "local"

\* `if (!root) throw new Error('No workspace folder found')`
RootMissing(configs, root) == ~root

\* LoopDone, were the loop left at the first failure
LoopDoneAtFailure(idx, configs, errors) == idx >= Len(configs) \/ errors # <<>>

\* the for loop is over once the last config was attempted
LoopDone(idx, configs, errors) == idx >= Len(configs)

\* ScopeFlag, were the two flags exchanged
ScopeFlagExchanged(scope) == IF scope = "local" THEN "global" ELSE "local"

\* the scope the command writes: --local for a local config, else --global
ScopeFlag(scope) == IF scope = "local" THEN "local" ELSE "global"

\* StoreAfterApply, were the pointer set whatever the errors
StoreAfterApplyAlways(st, id, errors) == [st EXCEPT !.activeProfile = id]

\* the store at the end of the call: the pointer is set after the check of
\* the errors
StoreAfterApply(st, id, errors) ==
    IF errors # <<>> THEN st ELSE [st EXCEPT !.activeProfile = id]

\* the end of applyProfile, reached with the errors collected by the loop
ApplyEnd(call, errors, attempts) ==
    IF errors # <<>>
    THEN /\ ap' = [call EXCEPT !.pc = "failed", !.errors = errors, !.attempts = attempts]
         /\ storage' = StoreAfterApply(storage, call.id, errors)
         /\ last' = [op |-> "apply", id |-> call.id, ok |-> FALSE,
                     lists |-> <<TRUE, TRUE>>, error |-> "SetFailed",
                     failed |-> errors]
         /\ UNCHANGED file
    ELSE \E writeOk \in BOOLEAN :
         /\ ap' = [call EXCEPT !.pc = "done", !.errors = errors, !.attempts = attempts]
         /\ storage' = Stamped(StoreAfterApply(storage, call.id, errors), now)
         /\ file' = Saved(StoreAfterApply(storage, call.id, errors), now, writeOk, file)
         /\ last' = [op |-> "apply", id |-> call.id, ok |-> ~SaveThrows(writeOk),
                     lists |-> <<TRUE, TRUE>>,
                     error |-> IF SaveThrows(writeOk) THEN "SaveFailed" ELSE "",
                     wrote |-> writeOk]

\* applyProfile(id) up to its first suspension, or to its end when it has
\* no command to run; one call is in flight at a time
ApplyStart(id) ==
    /\ ap.pc # "loop"
    /\ IF ~HasProfile(storage, id)
       THEN /\ last' = [op |-> "apply", id |-> id, ok |-> FALSE,
                        lists |-> <<TRUE, TRUE>>, error |-> "NotFound"]
            /\ UNCHANGED <<backend, hasRoot, history, storage, file, now, minted, issued, other, ap>>
       ELSE LET configs == GetProfile(storage, id).configs
                call == [pc |-> "loop", id |-> id, configs |-> configs, idx |-> 1,
                         errors |-> <<>>, attempts |-> <<>>, before |-> backend]
            IN  IF RootMissing(configs, hasRoot)
                THEN /\ ap' = [call EXCEPT !.pc = "failed"]
                     /\ last' = [op |-> "apply", id |-> id, ok |-> FALSE,
                                 lists |-> <<TRUE, TRUE>>, error |-> "NoWorkspace"]
                     /\ UNCHANGED <<backend, hasRoot, history, storage, file, now, minted, issued, other>>
                ELSE IF configs = <<>>
                THEN /\ ApplyEnd(call, <<>>, <<>>)
                     /\ UNCHANGED <<backend, hasRoot, history, now, minted, issued, other>>
                ELSE /\ ap' = call
                     /\ last' = [op |-> "applyStart", id |-> id, ok |-> TRUE,
                                 lists |-> <<TRUE, TRUE>>, error |-> ""]
                     /\ UNCHANGED <<backend, hasRoot, history, storage, file, now, minted, issued, other>>

\* the git command of the current config ends, and the call goes on to its
\* next suspension or to its end
ApplyStep ==
    /\ ap.pc = "loop"
    /\ \E execOk \in BOOLEAN :
        LET config == ap.configs[ap.idx]
            scope == ScopeFlag(config.scope)
            ok == execOk /\ CanSet(backend, scope, config.key)
            errors == IF ok THEN ap.errors ELSE Append(ap.errors, config.key)
            attempts == Append(ap.attempts,
                               [cmd |-> "set", key |-> config.key, scope |-> scope,
                                value |-> config.value, ok |-> ok])
            be == IF ok THEN GitConfigSet(backend, scope, config.key, config.value)
                        ELSE backend
        IN  /\ backend' = be
            /\ IF LoopDone(ap.idx, ap.configs, errors)
               THEN ApplyEnd(ap, errors, attempts)
               ELSE /\ ap' = [ap EXCEPT !.idx = @ + 1, !.errors = errors,
                                        !.attempts = attempts]
                    /\ last' = [op |-> "set", id |-> ap.id, ok |-> ok,
                                lists |-> <<TRUE, TRUE>>, error |-> ""]
                    /\ UNCHANGED <<storage, file>>
    /\ UNCHANGED <<hasRoot, history, now, minted, issued, other>>

(***************************************************************************)
(* Specifications.                                                         *)
(***************************************************************************)
\* a manager constructed on a profiles.json that holds one profile
LoadedStore(configs) ==
    [profiles |-> <<NewProfile(GenerateId(0, 0), "n1", "d1", configs, <<"work">>, 0)>>,
     activeProfile |-> NoId,
     lastModified |-> 0]

\* comparison of one stored profile with any git configuration
InitCompare ==
    /\ backend \in Backends
    /\ hasRoot \in BOOLEAN
    /\ \E configs \in ConfigLists : storage = LoadedStore(configs)
    /\ file = storage
    /\ now = 1
    /\ minted = 1
    /\ issued = {GenerateId(0, 0)}
    /\ other = NotConstructed
    /\ ap = IdleApply
    /\ history = <<>>
    /\ last = NoOperation

NextCompare == \E id \in CallIds : CompareProfiles(id)

SpecCompare == InitCompare /\ [][NextCompare]_vars

\* snapshots of any git configuration, and their comparison
InitSnapshot ==
    /\ backend \in Backends
    /\ hasRoot \in BOOLEAN
    /\ storage = EmptyStore(0)
    /\ file = AbsentFile
    /\ now = 0
    /\ minted = 0
    /\ issued = {}
    /\ other = NotConstructed
    /\ ap = IdleApply
    /\ history = <<>>
    /\ last = NoOperation

NextSnapshot ==
    \/ CreateProfileFromCurrent
    \/ \E id \in CallIds : CompareProfiles(id)

SpecSnapshot == InitSnapshot /\ [][NextSnapshot]_vars

\* application of one stored profile to a git configuration
InitApply ==
    /\ backend \in SmallBackends
    /\ hasRoot \in BOOLEAN
    /\ \E configs \in ConfigLists : storage = LoadedStore(configs)
    /\ file = storage
    /\ now = 1
    /\ minted = 1
    /\ issued = {GenerateId(0, 0)}
    /\ other = NotConstructed
    /\ ap = IdleApply
    /\ history = <<>>
    /\ last = NoOperation

NextApply ==
    \/ \E id \in CallIds : ApplyStart(id)
    \/ ApplyStep

SpecApply == InitApply /\ [][NextApply]_vars

\* application of one stored profile, and its comparison
NextReconcile ==
    \/ \E id \in CallIds : ApplyStart(id)
    \/ ApplyStep
    \/ \E id \in CallIds : CompareProfiles(id)

SpecReconcile == InitApply /\ [][NextReconcile]_vars

\* the life of a store: profiles are created, applied and deleted
Init ==
    /\ backend = [local |-> <<>>, global |-> <<>>]
    /\ hasRoot \in BOOLEAN
    /\ storage = EmptyStore(0)
    /\ file = AbsentFile
    /\ now = 0
    /\ minted = 0
    /\ issued = {}
    /\ other = NotConstructed
    /\ ap = IdleApply
    /\ history = <<>>
    /\ last = NoOperation

Next ==
    \/ CreateProfile
    \/ \E id \in CallIds : DeleteProfile(id)
    \/ \E id \in CallIds : ApplyStart(id)
    \/ ApplyStep

Spec == Init /\ [][Next]_vars

\* the fields given to updateProfile: those of the edit form, those of the
\* config editor, and fields the type lets through beside them
UpdateFields ==
    {[name |-> "n2", description |-> "d2", tags |-> <<"home">>],
     [configs |-> <<[key |-> <<"k", "2">>, value |-> <<"a">>, scope |-> "global"]>>],
     [icon |-> "home", modified |-> 0]}

\* the fields given to updateProfile in the life of a store
StoreUpdates == {[name |-> "n2", description |-> "d2", tags |-> <<"home">>]}

\* a profile exported from another store
ForeignPayload ==
    Stringify(NewProfile(GenerateId(0, 0), "n1", "d1", <<>>, <<"work">>, 0))

\* the exports of the profiles of the store, and the foreign one
Exports(st) ==
    {Stringify(st.profiles[i]) : i \in 1..Len(st.profiles)} \cup {ForeignPayload}

\* the life of a store under the operations that change it: the manager
\* was constructed on a profiles.json that holds one profile, it can
\* generate one more id, and the clock advances
InitStore ==
    /\ backend = [local |-> <<>>, global |-> <<>>]
    /\ hasRoot = TRUE
    /\ storage = LoadedStore(<<>>)
    /\ file = storage
    /\ now = 0
    /\ minted = MaxIds - 1
    /\ issued = {GenerateId(0, n) : n \in 0..(MaxIds - 2)}
    /\ other = NotConstructed
    /\ ap = IdleApply
    /\ history = <<>>
    /\ last = NoOperation

NextStore ==
    \/ CreateProfile
    \/ CreateProfileFromCurrent
    \/ \E id \in CallIds, updates \in StoreUpdates : UpdateProfile(id, updates)
    \/ \E id \in CallIds : DeleteProfile(id)
    \/ \E payload \in Exports(storage) : ImportProfile(payload)
    \/ \E id \in CallIds : ApplyStart(id)
    \/ ApplyStep
    \/ Tick

SpecStore == InitStore /\ [][NextStore]_vars

\* the operations that address a profile by its id, on a store that holds
\* one profile
InitLookup ==
    /\ backend \in SmallBackends
    /\ hasRoot \in BOOLEAN
    /\ \E configs \in StoreConfigs : storage = LoadedStore(configs)
    /\ file = storage
    /\ now = 1
    /\ minted = 1
    /\ issued = {GenerateId(0, 0)}
    /\ other = NotConstructed
    /\ ap = IdleApply
    /\ history = <<>>
    /\ last = NoOperation

NextLookup ==
    \/ \E id \in CallIds, updates \in StoreUpdates : UpdateProfile(id, updates)
    \/ \E id \in CallIds : DeleteProfile(id)
    \/ \E id \in CallIds : CompareProfiles(id)
    \/ \E id \in CallIds : ExportProfile(id)
    \/ \E id \in CallIds : ApplyStart(id)
    \/ ApplyStep

SpecLookup == InitLookup /\ [][NextLookup]_vars

\* what the name and the configs of a payload may be
NameVariants == {JsonUndefined, JsonString(""), JsonString("n1")}
ConfigsVariants ==
    {JsonUndefined, JsonString(""), JsonString("x"), JsonObject, JsonArray(<<>>),
     JsonArray(<<[key |-> <<"k", "1">>, value |-> <<"a">>, scope |-> "local"]>>)}

\* the texts given to importProfile: the exports, with any name and any
\* configs, and the same texts cut short, which do not parse
ImportPayloads(st) ==
    {[x EXCEPT !.parses = parses, !.name = name, !.configs = configs] :
        x \in Exports(st), parses \in BOOLEAN,
        name \in NameVariants, configs \in ConfigsVariants}

\* exports and imports on a store that holds one profile
InitImport ==
    /\ backend = [local |-> <<>>, global |-> <<>>]
    /\ hasRoot = TRUE
    /\ \E configs \in StoreConfigs : storage = LoadedStore(configs)
    /\ file = storage
    /\ now = 0
    /\ minted = 1
    /\ issued = {GenerateId(0, 0)}
    /\ other = NotConstructed
    /\ ap = IdleApply
    /\ history = <<>>
    /\ last = NoOperation

NextImport ==
    \/ \E id \in CallIds : ExportProfile(id)
    \/ \E payload \in ImportPayloads(storage) : ImportProfile(payload)
    \/ Tick

SpecImport == InitImport /\ [][NextImport]_vars

\* the ids of the profiles of a store that starts empty, under the
\* operations that generate ids or remove profiles, the suffix of an id
\* being any suffix
InitIds ==
    /\ backend = [local |-> <<>>, global |-> <<>>]
    /\ hasRoot = FALSE
    /\ storage = EmptyStore(0)
    /\ file = AbsentFile
    /\ now = 0
    /\ minted = 0
    /\ issued = {}
    /\ other = NotConstructed
    /\ ap = IdleApply
    /\ history = <<>>
    /\ last = NoOperation

NextIds ==
    \/ CreateProfile
    \/ CreateProfileFromCurrent
    \/ \E payload \in Exports(storage) : ImportProfile(payload)
    \/ \E id \in CallIds : DeleteProfile(id)
    \/ DrawSuffix

SpecIds == InitIds /\ [][NextIds]_vars

\* updates of the profiles of a store that can generate one more id, the
\* clock advancing
InitUpdate ==
    /\ backend = [local |-> <<>>, global |-> <<>>]
    /\ hasRoot = TRUE
    /\ \E configs \in StoreConfigs : storage = LoadedStore(configs)
    /\ file = storage
    /\ now = 0
    /\ minted = MaxIds - 1
    /\ issued = {GenerateId(0, n) : n \in 0..(MaxIds - 2)}
    /\ other = NotConstructed
    /\ ap = IdleApply
    /\ history = <<>>
    /\ last = NoOperation

NextUpdate ==
    \/ CreateProfile
    \/ \E id \in CallIds, updates \in UpdateFields : UpdateProfile(id, updates)
    \/ Tick

SpecUpdate == InitUpdate /\ [][NextUpdate]_vars

\* the files a session may start on
StartFiles == {AbsentFile, LoadedStore(<<>>)}

\* the ids a message of the webview may carry: those the webview was sent
\* and one more
WebviewIds == {other.profiles[i].id : i \in 1..Len(other.profiles)} \cup {MissingId}

\* two managers that were constructed on the same profiles.json, and two
\* ids to generate
InitShared ==
    /\ backend = [local |-> <<>>, global |-> <<>>]
    /\ hasRoot = TRUE
    /\ file \in StartFiles
    /\ storage = LoadStorage(file, 0)
    /\ other = LoadStorage(file, 0)
    /\ now = 0
    /\ minted = MaxIds - 2
    /\ issued = {GenerateId(0, n) : n \in 0..(MaxIds - 3)}
    /\ ap = IdleApply
    /\ history = <<>>
    /\ last = NoOperation

NextShared ==
    \/ CreateProfile
    \/ \E id \in CallIds : DeleteProfile(id)
    \/ WebviewCreateProfile
    \/ \E id \in WebviewIds : WebviewDeleteProfile(id)

SpecShared == InitShared /\ [][NextShared]_vars

\* sessions of one manager on a profiles.json that may be absent or damaged
InitLoad ==
    /\ backend = [local |-> <<>>, global |-> <<>>]
    /\ hasRoot = TRUE
    /\ file \in StartFiles \cup {CorruptFile}
    /\ storage = LoadStorage(file, 0)
    /\ other = NotConstructed
    /\ now = 0
    /\ minted = MaxIds - 2
    /\ issued = {GenerateId(0, n) : n \in 0..(MaxIds - 3)}
    /\ ap = IdleApply
    /\ history = <<>>
    /\ last = [op |-> "construct", id |-> NoId, ok |-> TRUE,
               lists |-> <<TRUE, TRUE>>, error |-> "", loaded |-> file]

NextLoad ==
    \/ Activate
    \/ Damage
    \/ CreateProfile
    \/ \E id \in CallIds : DeleteProfile(id)
    \/ Tick

SpecLoad == InitLoad /\ [][NextLoad]_vars

\* the list of profiles of a store under the operations that add, change or
\* remove a profile: the manager was constructed on a profiles.json that
\* holds one profile, and it can generate two more ids
InitOrder ==
    /\ backend = [local |-> <<>>, global |-> <<>>]
    /\ hasRoot = FALSE
    /\ storage = LoadedStore(<<>>)
    /\ file = storage
    /\ now = 1
    /\ minted = MaxIds - 2
    /\ issued = {GenerateId(0, n) : n \in 0..(MaxIds - 3)}
    /\ other = NotConstructed
    /\ ap = IdleApply
    /\ history = <<>>
    /\ last = NoOperation

NextOrder ==
    \/ CreateProfile
    \/ \E payload \in Exports(storage) : ImportProfile(payload)
    \/ \E id \in CallIds, updates \in StoreUpdates : UpdateProfile(id, updates)
    \/ \E id \in CallIds : DeleteProfile(id)

SpecOrder == InitOrder /\ [][NextOrder]_vars

\* the history of a workspace that starts without config-history.json, the
\* clock advancing
InitHistory ==
    /\ backend = [local |-> <<>>, global |-> <<>>]
    /\ hasRoot \in BOOLEAN
    /\ history = <<>>
    /\ storage = EmptyStore(0)
    /\ file = AbsentFile
    /\ now = 0
    /\ minted = 0
    /\ issued = {}
    /\ other = NotConstructed
    /\ ap = IdleApply
    /\ last = NoOperation

NextHistory ==
    \/ AddConfigChangeToHistory
    \/ Tick

SpecHistory == InitHistory /\ [][NextHistory]_vars

\* a manager constructed on a profiles.json whose profile is the active one
ActiveStore(configs) ==
    [LoadedStore(configs) EXCEPT !.activeProfile = GenerateId(0, 0)]

\* updates of the profiles of a store that was loaded with or without an
\* active profile and can generate one more id
InitMerge ==
    /\ backend = [local |-> <<>>, global |-> <<>>]
    /\ hasRoot = TRUE
    /\ history = <<>>
    /\ \E configs \in StoreConfigs :
          storage \in {LoadedStore(configs), ActiveStore(configs)}
    /\ file = storage
    /\ now = 1
    /\ minted = MaxIds - 1
    /\ issued = {GenerateId(0, n) : n \in 0..(MaxIds - 2)}
    /\ other = NotConstructed
    /\ ap = IdleApply
    /\ last = NoOperation

NextMerge ==
    \/ CreateProfile
    \/ \E id \in CallIds, updates \in UpdateFields : UpdateProfile(id, updates)

SpecMerge == InitMerge /\ [][NextMerge]_vars

\* a profile of any configs is edited, exported and imported again at a
\* later time
InitRoundTrip ==
    /\ backend = [local |-> <<>>, global |-> <<>>]
    /\ hasRoot = TRUE
    /\ history = <<>>
    /\ \E configs \in ConfigLists : storage = LoadedStore(configs)
    /\ file = storage
    /\ now = 1
    /\ minted = MaxIds - 1
    /\ issued = {GenerateId(0, n) : n \in 0..(MaxIds - 2)}
    /\ other = NotConstructed
    /\ ap = IdleApply
    /\ last = NoOperation

NextRoundTrip ==
    \/ \E id \in CallIds, updates \in StoreUpdates : UpdateProfile(id, updates)
    \/ \E id \in CallIds : ExportProfile(id)
    \/ \E payload \in Exports(storage) : ImportProfile(payload)

SpecRoundTrip == InitRoundTrip /\ [][NextRoundTrip]_vars

\* comparisons and snapshots where no root is resolvable, whatever the git
\* configuration and the configs of the stored profile
InitNoRoot ==
    /\ backend \in Backends
    /\ hasRoot = FALSE
    /\ history = <<>>
    /\ \E configs \in ConfigLists : storage = LoadedStore(configs)
    /\ file = storage
    /\ now = 1
    /\ minted = MaxIds - 1
    /\ issued = {GenerateId(0, n) : n \in 0..(MaxIds - 2)}
    /\ other = NotConstructed
    /\ ap = IdleApply
    /\ last = NoOperation

NextNoRoot ==
    \/ \E id \in CallIds : CompareProfiles(id)
    \/ CreateProfileFromCurrent

SpecNoRoot == InitNoRoot /\ [][NextNoRoot]_vars

(***************************************************************************)
(* Properties.                                                             *)
(***************************************************************************)
\* the (key, scope) pairs of a list of configs
PairsOf(cs) == {<<cs[i].key, cs[i].scope>> : i \in 1..Len(cs)}

\* the value of the last entry of the list with this key and scope
LastValue(cs, key, scope) ==
    LET at == {i \in 1..Len(cs) : cs[i].key = key /\ cs[i].scope = scope}
    IN  cs[CHOOSE i \in at : \A j \in at : j <= i].value

\* a compareProfiles call has just returned a comparison
Compared == last.op = "compare" /\ last.ok

\* C1: a snapshot taken by createProfileFromCurrent and compared at once with
\* the same git configuration, no list command failing, gives three empty
\* lists, whatever the git configuration, also when a key has several values
C1_RoundTripEmpty ==
    (Compared /\ last.follows = "createFromCurrent" /\ last.lists = <<TRUE, TRUE>>)
        => last.result = EmptyComparison

\* C2: toRemove is the current configs, in their order, whose (key, scope) is
\* not one of the profile's; the same key of the other scope does not count
C2_ToRemoveExact ==
    Compared =>
        last.result.toRemove =
            SelectSeq(last.current,
                      LAMBDA c : <<c.key, c.scope>> \notin PairsOf(last.configs))

\* C2 happens: two entries are to be removed, one of them with a key that the
\* profile has in the other scope
C2_Witness ==
    /\ Compared
    /\ Len(last.result.toRemove) >= 2
    /\ \E i \in 1..Len(last.result.toRemove), j \in 1..Len(last.configs) :
          /\ last.result.toRemove[i].key = last.configs[j].key
          /\ last.result.toRemove[i].scope # last.configs[j].scope

\* C3: toAdd is the profile's configs, in their order, whose (key, scope) is
\* not one of the current configs; when there is no current config, toAdd is
\* the profile's configs and the other two lists are empty
C3_ToAddExact ==
    Compared =>
        /\ last.result.toAdd =
              SelectSeq(last.configs,
                        LAMBDA c : <<c.key, c.scope>> \notin PairsOf(last.current))
        /\ last.current = <<>> =>
              /\ last.result.toAdd = last.configs
              /\ last.result.toUpdate = <<>>
              /\ last.result.toRemove = <<>>

\* C3 happens: of two configs of the profile, the second only is to be added,
\* its key being current in the other scope
C3_Witness ==
    /\ Compared
    /\ Len(last.configs) = 2
    /\ last.result.toAdd = <<last.configs[2]>>
    /\ \E i \in 1..Len(last.current) :
          /\ last.current[i].key = last.configs[2].key
          /\ last.current[i].scope # last.configs[2].scope

\* the toUpdate record of a config of the profile
UpdateRecord(c, current) ==
    [key |-> c.key, scope |-> c.scope,
     oldValue |-> LastValue(current, c.key, c.scope), newValue |-> c.value]

\* the configs of the profile whose (key, scope) is current with another value
Drifted(configs, current) ==
    SelectSeq(configs,
              LAMBDA c : /\ <<c.key, c.scope>> \in PairsOf(current)
                         /\ LastValue(current, c.key, c.scope) # c.value)

\* C4: toUpdate holds, in the profile's order, one record for each config of
\* the profile whose (key, scope) is current with another value, with the
\* current value as oldValue and the profile's as newValue; a config whose
\* value is the current one is in none of the three lists
C4_ToUpdateExact ==
    Compared =>
        LET drifted == Drifted(last.configs, last.current)
        IN  /\ last.result.toUpdate =
                  [i \in 1..Len(drifted) |-> UpdateRecord(drifted[i], last.current)]
            /\ \A i \in 1..Len(last.configs) :
                  LET c == last.configs[i]
                  IN  (/\ <<c.key, c.scope>> \in PairsOf(last.current)
                       /\ LastValue(last.current, c.key, c.scope) = c.value)
                      => /\ \A j \in 1..Len(last.result.toAdd) :
                               last.result.toAdd[j] # c
                         /\ \A j \in 1..Len(last.result.toUpdate) :
                               ~ (/\ last.result.toUpdate[j].key = c.key
                                  /\ last.result.toUpdate[j].scope = c.scope
                                  /\ last.result.toUpdate[j].newValue = c.value)
                         /\ \A j \in 1..Len(last.result.toRemove) :
                               <<last.result.toRemove[j].key, last.result.toRemove[j].scope>>
                                   # <<c.key, c.scope>>

\* C4 happens: one config of the profile has the current value and the other
\* one is to be updated
C4_Witness ==
    /\ Compared
    /\ Len(last.configs) = 2
    /\ Len(last.result.toUpdate) = 1
    /\ last.result.toUpdate[1].oldValue # last.result.toUpdate[1].newValue
    /\ \E i \in 1..2 :
          /\ <<last.configs[i].key, last.configs[i].scope>> \in PairsOf(last.current)
          /\ LastValue(last.current, last.configs[i].key, last.configs[i].scope)
                = last.configs[i].value

\* C5: compareProfiles(id) directly after an applyProfile(id) whose sets all
\* succeeded gives three empty lists
C5_EmptyAfterApply ==
    (Compared /\ last.follows = "apply" /\ last.lists = <<TRUE, TRUE>>)
        => last.result = EmptyComparison

\* an applyProfile call that went through its loop
Looped == ap.pc \in {"loop", "done", "failed"} /\ (ap.pc = "failed" => ap.errors # <<>>)

\* the keys of the attempts that failed, in their order
RECURSIVE FailedKeys(_)
FailedKeys(attempts) ==
    IF attempts = <<>> THEN <<>>
    ELSE (IF Head(attempts).ok THEN <<>> ELSE <<Head(attempts).key>>)
         \o FailedKeys(Tail(attempts))

\* C6: applyProfile attempts one set for each config of the profile, in
\* their order, whatever the earlier attempts did; when an attempt failed the
\* call ends with one error that names the key of every failed attempt, and
\* what the successful attempts wrote is in the git configuration
C6_BestEffort ==
    Looped =>
        /\ Len(ap.attempts) = (IF ap.pc = "loop" THEN ap.idx - 1 ELSE Len(ap.configs))
        /\ \A i \in 1..Len(ap.attempts) :
              /\ ap.attempts[i].cmd = "set"
              /\ ap.attempts[i].key = ap.configs[i].key
              /\ ap.attempts[i].scope = ap.configs[i].scope
              /\ ap.attempts[i].value = ap.configs[i].value
        /\ (ap.pc # "loop" /\ last.op = "apply" /\ last.id = ap.id
              /\ last.error # "NotFound") =>
              IF \E i \in 1..Len(ap.attempts) : ~ap.attempts[i].ok
              THEN /\ ~last.ok
                   /\ last.error = "SetFailed"
                   /\ last.failed = FailedKeys(ap.attempts)
              ELSE last.error \in {"", "SaveFailed"}
        /\ \A i \in 1..Len(ap.attempts) :
              (/\ ap.attempts[i].ok
               /\ \A j \in (i + 1)..Len(ap.attempts) :
                     ~ (/\ ap.attempts[j].ok
                        /\ ap.attempts[j].key = ap.attempts[i].key
                        /\ ap.attempts[j].scope = ap.attempts[i].scope))
              => \E n \in 1..Len(backend[ap.attempts[i].scope]) :
                    backend[ap.attempts[i].scope][n] =
                        [key |-> ap.attempts[i].key, value |-> ap.attempts[i].value]

\* C6 happens: the first set failed, the second one was attempted and
\* succeeded, and the call ended with the error
C6_Witness ==
    /\ ap.pc = "failed"
    /\ last.op = "apply" /\ last.error = "SetFailed"
    /\ Len(ap.attempts) = 2
    /\ ~ap.attempts[1].ok
    /\ ap.attempts[2].ok
    /\ backend # ap.before

\* C7: once applyProfile(id) has attempted all its sets and some failed,
\* activeProfile is id, in the store and in profiles.json
C7_ActiveSetOnFailure ==
    (ap.pc = "failed" /\ ap.errors # <<>>)
        => (storage.activeProfile = ap.id /\ file.activeProfile = ap.id)

\* C7, amended: when applyProfile(id) ends with failed sets it leaves the
\* store, its activeProfile pointer included, and profiles.json as they were
C7_FailureLeavesStore ==
    [][(ap.pc = "loop" /\ ap'.pc = "failed") => (storage' = storage /\ file' = file)]_vars

\* C7 happens: an applyProfile call ended with a failed set while another
\* profile was the active one
C7_Witness ==
    /\ ap.pc = "failed"
    /\ ap.errors # <<>>
    /\ last.op = "apply" /\ last.id = ap.id
    /\ storage.activeProfile # NoId
    /\ storage.activeProfile # ap.id

\* C8: applyProfile fails for lack of a root only when no root is resolvable
\* and a config of the profile is local
C8_RootNeededForLocalOnly ==
    (last.op = "apply" /\ last.error = "NoWorkspace")
        => (~hasRoot /\ \E i \in 1..Len(ap.configs) : ap.configs[i].scope = "local")

\* C8, amended: applyProfile of a stored profile fails for lack of a root
\* exactly when no root is resolvable, whatever the scopes of the configs;
\* it then issues no set and does not set the active pointer
C8_NoRootAlwaysFails ==
    (last.op = "apply" /\ last.error # "NotFound") =>
        /\ last.error = "NoWorkspace" <=> ~hasRoot
        /\ ~hasRoot =>
              /\ ~last.ok
              /\ ap.id = last.id
              /\ ap.attempts = <<>>
              /\ backend = ap.before
              /\ storage.activeProfile # last.id

\* C8 happens: a profile whose configs are all global was applied without a
\* root
C8_Witness ==
    /\ ~hasRoot
    /\ last.op = "apply" /\ last.error = "NoWorkspace"
    /\ ap.configs # <<>>
    /\ \A i \in 1..Len(ap.configs) : ap.configs[i].scope = "global"

\* the entries of one scope whose key the profile does not declare there
Undeclared(entries, configs, scope) ==
    SelectSeq(entries, LAMBDA e : <<e.key, scope>> \notin PairsOf(configs))

\* C9: during and after applyProfile the entries whose (key, scope) the
\* profile does not declare are the ones of before the call, with their
\* values and in their order, and the call issues set commands only
C9_UndeclaredUntouched ==
    ap.pc # "idle" =>
        /\ \A scope \in Scopes :
              Undeclared(backend[scope], ap.configs, scope)
                  = Undeclared(ap.before[scope], ap.configs, scope)
        /\ \A i \in 1..Len(ap.attempts) : ap.attempts[i].cmd = "set"

\* C9 happens: an applyProfile call ended after it changed the git
\* configuration, which has an entry the profile does not declare
C9_Witness ==
    /\ ap.pc = "done"
    /\ backend # ap.before
    /\ \E scope \in Scopes : Undeclared(backend[scope], ap.configs, scope) # <<>>

\* C10: after deleteProfile(id) the profile is not in the store; when id was
\* the active profile the pointer is unset and getActiveProfile() finds
\* nothing, else the pointer is what it was; the store is in profiles.json
\* when the call returned normally
C10_DeleteClearsActive ==
    (last.op = "delete" /\ last.error # "NotFound") =>
        /\ ~HasProfile(storage, last.id)
        /\ last.activeBefore = last.id =>
              (storage.activeProfile = NoId /\ GetActiveProfile(storage) = NoId)
        /\ last.activeBefore # last.id => storage.activeProfile = last.activeBefore
        /\ last.ok => file = storage

\* C10 happens: the active profile was deleted, another one staying
C10_Witness ==
    /\ last.op = "delete"
    /\ last.ok
    /\ last.activeBefore = last.id
    /\ Len(storage.profiles) >= 1

\* no profile of the store has this id
NotInStore(st, id) == \A i \in 1..Len(st.profiles) : st.profiles[i].id # id

\* C11: updateProfile, deleteProfile, compareProfiles, applyProfile and
\* exportProfile called with an id that no profile of the store has end with
\* the NotFound error and leave the store, profiles.json and the git
\* configuration as they were; no set command is issued and no list is read
C11_NotFoundNoEffect ==
    [][(/\ last' # last
        /\ \/ last'.op \in {"update", "delete", "compare", "export"}
           \/ last'.op \in {"apply", "applyStart"} /\ ap.pc # "loop"
        /\ NotInStore(storage, last'.id))
       => /\ ~last'.ok
          /\ last'.error = "NotFound"
          /\ storage' = storage
          /\ file' = file
          /\ backend' = backend
          /\ ap' = ap
          /\ "current" \notin DOMAIN last']_vars

\* C11 happens: an operation was refused for a missing id on a store that
\* holds a profile, the git configuration having entries
C11_Witness ==
    /\ last.op \in {"update", "delete", "compare", "apply", "export"}
    /\ last.error = "NotFound"
    /\ NotInStore(storage, last.id)
    /\ Len(storage.profiles) >= 1
    /\ backend.local \o backend.global # <<>>

\* the text does not parse, or what it parses to has no name, or its configs
\* is not a list
Malformed(payload) ==
    \/ ~payload.parses
    \/ payload.name.t = "undefined"
    \/ payload.name = [t |-> "string", v |-> ""]
    \/ payload.configs.t # "array"

\* C12: importProfile of a text that does not parse, has no name or whose
\* configs is not a list ends with an error; no profile is appended, no id
\* is generated, and the store and profiles.json are as they were
C12_ImportRejects ==
    [][(last' # last /\ last'.op = "import" /\ Malformed(last'.payload))
       => /\ ~last'.ok
          /\ last'.error = "ImportFailed"
          /\ last'.cause \in {"Parse", "InvalidFormat"}
          /\ storage' = storage
          /\ file' = file
          /\ minted' = minted]_vars

\* C12 happens: a text that parses, with a name and with configs that is an
\* object but not a list, was refused
C12_Witness ==
    /\ last.op = "import"
    /\ ~last.ok
    /\ last.payload.parses
    /\ last.payload.name.t = "string" /\ last.payload.name.v # ""
    /\ last.payload.configs.t = "object"
    /\ Len(storage.profiles) >= 1

\* an importProfile call went past its validation: it appended a profile
Appended(l) == l.op = "import" /\ l.cause \notin {"Parse", "InvalidFormat"}

\* C13: importProfile of the export of a profile of the store appends a
\* profile whose id is not the exported one; the profiles of before the call
\* stay as they were, where they were, and the new one comes last
C13_ImportNewId ==
    [][(/\ Appended(last')
        /\ minted' # minted
        /\ \E i \in 1..Len(storage.profiles) :
              last'.payload = Stringify(storage.profiles[i]))
       => /\ last'.id # last'.payload.id
          /\ Len(storage'.profiles) = Len(storage.profiles) + 1
          /\ SubSeq(storage'.profiles, 1, Len(storage.profiles)) = storage.profiles
          /\ storage'.profiles[Len(storage'.profiles)].id = last'.id]_vars

\* C14: the ids of the profiles of the store are pairwise distinct, and the
\* id given to a new profile is none of the ids generated before, also not
\* that of a deleted profile
C14_IdsUnique ==
    /\ \A i, j \in 1..Len(storage.profiles) :
          i # j => storage.profiles[i].id # storage.profiles[j].id
    /\ (last.op \in {"create", "createFromCurrent", "import"}
          /\ "fresh" \in DOMAIN last) => last.fresh

\* the step is an updateProfile call that found its profile, at this index
Updates(index) ==
    /\ last'.op = "update"
    /\ last'.error # "NotFound"
    /\ storage' # storage
    /\ index \in 1..Len(storage.profiles)
    /\ storage.profiles[index].id = last'.id
    /\ \A j \in 1..(index - 1) : storage.profiles[j].id # last'.id

\* C15: updateProfile leaves the id and created of the profile as they were
\* and changes modified to a later time
C15_ModifiedLater ==
    [][\A index \in 1..Len(storage.profiles) :
          Updates(index)
          => /\ storage'.profiles[index].id = storage.profiles[index].id
             /\ storage'.profiles[index].created = storage.profiles[index].created
             /\ storage'.profiles[index].modified > storage.profiles[index].modified]_vars

\* C15, amended: updateProfile leaves the id and created of the profile as
\* they were and sets modified to the reading of the clock at the call,
\* whatever the fields of the update: a later time when the clock has
\* advanced since modified was stamped, the same time when it has not
C15_ModifiedNow ==
    [][\A index \in 1..Len(storage.profiles) :
          Updates(index)
          => /\ storage'.profiles[index].id = storage.profiles[index].id
             /\ storage'.profiles[index].created = storage.profiles[index].created
             /\ storage'.profiles[index].modified = now
             /\ storage.profiles[index].modified < now
                   => storage'.profiles[index].modified > storage.profiles[index].modified
             /\ storage.profiles[index].modified = now
                   => storage'.profiles[index].modified = storage.profiles[index].modified]_vars

\* C15 happens: a profile was renamed in the millisecond of its last
\* modification, and another one was updated later, with fields that give
\* modified
C15_Witness ==
    /\ Len(storage.profiles) = 2
    /\ storage.profiles[1].name = "n2"
    /\ storage.profiles[1].created = 0 /\ storage.profiles[1].modified = 0
    /\ storage.profiles[2].icon = "home"
    /\ storage.profiles[2].modified > storage.profiles[2].created
    /\ last.op = "update" /\ last.id = storage.profiles[2].id

\* the operations that change the store
Mutating == {"create", "createFromCurrent", "update", "delete", "import", "apply"}

\* C16: when createProfile, createProfileFromCurrent, updateProfile,
\* deleteProfile, importProfile or applyProfile has returned normally,
\* profiles.json is the store of the manager: the same profiles in the same
\* order, the same activeProfile, the same lastModified
C16_FileIsStore ==
    (last.op \in Mutating /\ last.ok)
        => /\ file = storage
           /\ file.profiles = storage.profiles
           /\ file.activeProfile = storage.activeProfile
           /\ file.lastModified = storage.lastModified

\* C16 happens: an operation returned normally after the clock advanced, on
\* a store of two profiles, one of them active
C16_Witness ==
    /\ last.op \in Mutating /\ last.ok
    /\ Len(storage.profiles) = 2
    /\ storage.activeProfile # NoId
    /\ storage.lastModified > 0

\* C19: when the write of profiles.json fails in createProfile,
\* updateProfile, deleteProfile, importProfile or applyProfile, the call ends
\* with an error
C19_WriteFailureSurfaces ==
    (last.op \in Mutating /\ "wrote" \in DOMAIN last /\ ~last.wrote)
        => (~last.ok /\ last.error \in {"SaveFailed", "ImportFailed"})

\* C19 happens: importProfile ended with an error for a failed write, the
\* store holding the profile that profiles.json does not
C19_Witness ==
    /\ last.op = "import"
    /\ ~last.wrote
    /\ last.error = "ImportFailed" /\ last.cause = "SaveFailed"
    /\ Len(storage.profiles) > Len(file.profiles)

\* the id of the profile that both managers may have loaded
LoadedId == LoadedStore(<<>>).profiles[1].id

\* the operations of the manager of the main webview that save
WebviewSaved == last.op \in {"webviewCreate", "webviewDelete"} /\ last.ok

\* C17: two managers having loaded the same profiles.json, a profile created
\* through the first one is never in the store of the second one, and once
\* the second one has saved, profiles.json is the store of the second one
\* and does not hold that profile
C17_LastWriterWins ==
    \A i \in 1..Len(storage.profiles) :
        storage.profiles[i].id # LoadedId =>
            /\ NotInStore(other, storage.profiles[i].id)
            /\ WebviewSaved =>
                  /\ file = other
                  /\ NotInStore(file, storage.profiles[i].id)

\* C17 happens: each manager has created a profile beside the one both
\* loaded, and the second one saved last
C17_Witness ==
    /\ WebviewSaved
    /\ Len(storage.profiles) = 2
    /\ storage.profiles[2].id # LoadedId
    /\ Len(other.profiles) = 2
    /\ file = other
    /\ file # storage

\* C18: the store of a constructed manager has a profiles field that is a
\* list, whatever the operations that followed; a manager constructed where
\* profiles.json is absent or does not parse is constructed without error,
\* on an empty list of profiles and no active profile
C18_LoadNeverFails ==
    /\ "profiles" \in DOMAIN storage
    /\ DOMAIN storage.profiles = 1..Len(storage.profiles)
    /\ (last.op = "construct" /\ (last.loaded = AbsentFile \/ last.loaded = CorruptFile))
          => /\ last.ok
             /\ storage.profiles = <<>>
             /\ storage.activeProfile = NoId

\* C18 happens: in a later session the manager was constructed on a
\* profiles.json that does not parse
C18_Witness ==
    /\ last.op = "construct"
    /\ last.loaded = CorruptFile
    /\ file = CorruptFile
    /\ storage = EmptyStore(now)
    /\ now > 0
    /\ minted > MaxIds - 2

\* a value without the blanks around it
Stripped(str) ==
    LET inked == {i \in 1..Len(str) : str[i] # " "}
    IN  IF inked = {} THEN <<>>
        ELSE SubSeq(str, CHOOSE i \in inked : \A j \in inked : i <= j,
                         CHOOSE i \in inked : \A j \in inked : j <= i)

\* the entries of one scope of the git configuration as config items, in
\* their order
ItemsOf(entries, scope) ==
    [i \in 1..Len(entries) |->
        [key |-> entries[i].key, value |-> Stripped(entries[i].value), scope |-> scope]]

\* C20: with a root, getCurrentConfigs returns the global entries when the
\* local list command fails, the local entries when the global one fails,
\* and the local entries followed by the global ones when both succeed, each
\* with its scope; a failing list command never fails the call
C20_FailingScopeTolerated ==
    (Compared /\ hasRoot) =>
        /\ last.lists = <<FALSE, TRUE>> => last.current = ItemsOf(backend.global, "global")
        /\ last.lists = <<TRUE, FALSE>> => last.current = ItemsOf(backend.local, "local")
        /\ last.lists = <<TRUE, TRUE>> =>
              last.current = ItemsOf(backend.local, "local")
                                \o ItemsOf(backend.global, "global")

\* C20 happens: the local list command failed where both scopes have an
\* entry, and the global entry was returned
C20_Witness ==
    /\ Compared
    /\ hasRoot
    /\ last.lists = <<FALSE, TRUE>>
    /\ backend.local # <<>>
    /\ backend.global # <<>>
    /\ last.current = ItemsOf(backend.global, "global")

\* the profiles of a list without the one at this index
Without(profiles, index) ==
    [i \in 1..(Len(profiles) - 1) |->
        IF i < index THEN profiles[i] ELSE profiles[i + 1]]

\* the list is in the order of creation: the clock readings of created do
\* not decrease along it, and the ids follow the order of their generation
InCreationOrder(profiles) ==
    \A i, j \in 1..Len(profiles) :
        i < j => /\ profiles[i].created <= profiles[j].created
                 /\ profiles[i].id[2] < profiles[j].id[2]

\* C21: getAllProfiles lists the surviving profiles in the order of their
\* creation or import.  createProfile and importProfile append at the end,
\* also beside a profile of the same name; updateProfile keeps every profile
\* at its place; deleteProfile removes one profile and keeps the others in
\* their order
C21_InsertionOrder ==
    /\ []InCreationOrder(storage.profiles)
    /\ [][LET old == storage.profiles
              new == storage'.profiles
          IN  /\ minted' # minted
                    => /\ last'.op \in {"create", "import"}
                       /\ Len(new) = Len(old) + 1
                       /\ SubSeq(new, 1, Len(old)) = old
                       /\ new[Len(new)].id = last'.id
              /\ (last'.op = "update" /\ storage' # storage)
                    => /\ Len(new) = Len(old)
                       /\ \A i \in 1..Len(old) :
                             /\ new[i].id = old[i].id
                             /\ new[i].id # last'.id => new[i] = old[i]
              /\ (last'.op = "delete" /\ storage' # storage)
                    => \E index \in 1..Len(old) :
                          /\ old[index].id = last'.id
                          /\ new = Without(old, index)
              /\ (minted' = minted /\ last'.op \notin {"update", "delete"})
                    => new = old]_vars

\* C21 happens: after the first profile was deleted, the store lists a
\* renamed profile followed by an imported one of the name the first one had
\* when it was exported
C21_Witness ==
    /\ Len(storage.profiles) = 2
    /\ storage.profiles[1].id[2] > 0
    /\ storage.profiles[1].name = "n2"
    /\ storage.profiles[2].name = "n1"
    /\ last.op = "update"
    /\ last.id = storage.profiles[1].id

\* the step is an addConfigChangeToHistory call
AddsChange == last'.op = "addConfigChangeToHistory" /\ now' = now

EntriesOf(cs, key, scope) ==
    {i \in 1..Len(cs) : cs[i].key = key /\ cs[i].scope = scope}

\* C23: when the configs of the profile hold two or more entries of one
\* (key, scope), compareProfiles takes the value of the last of them as the
\* value of the profile: where the git configuration has that value for the
\* key in that scope, neither toAdd nor toUpdate holds a record of the key
C23_LastEntryDecides ==
    Compared =>
        \A p \in PairsOf(last.configs) :
            (/\ Cardinality(EntriesOf(last.configs, p[1], p[2])) >= 2
             /\ p \in PairsOf(last.current)
             /\ LastValue(last.current, p[1], p[2]) = LastValue(last.configs, p[1], p[2]))
            => /\ \A j \in 1..Len(last.result.toAdd) :
                     <<last.result.toAdd[j].key, last.result.toAdd[j].scope>> # p
               /\ \A j \in 1..Len(last.result.toUpdate) :
                     <<last.result.toUpdate[j].key, last.result.toUpdate[j].scope>> # p

\* C24: updateProfile changes, in the profile it addresses, the fields of
\* the update and modified only: every other field keeps its value, a
\* configs list of the update stands in place of the old list, and the
\* other profiles, their number and the active pointer stay as they were
C24_ShallowMerge ==
    [][\A index \in 1..Len(storage.profiles) :
          Updates(index)
          => LET old == storage.profiles[index]
                 new == storage'.profiles[index]
                 given == DOMAIN last'.updates
             IN  /\ DOMAIN new = DOMAIN old
                 /\ \A f \in DOMAIN old \ (given \cup {"modified"}) : new[f] = old[f]
                 /\ \A f \in given \ {"modified"} : new[f] = last'.updates[f]
                 /\ "configs" \in given => new.configs = last'.updates.configs
                 /\ Len(storage'.profiles) = Len(storage.profiles)
                 /\ \A j \in 1..Len(storage.profiles) :
                       j # index => storage'.profiles[j] = storage.profiles[j]
                 /\ storage'.activeProfile = storage.activeProfile]_vars

\* C24 happens: in a store of two profiles with an active one, the tags of
\* one profile were changed, its configs and its icon staying, and the
\* configs of the other profile were replaced, its tags staying
C24_Witness ==
    /\ Len(storage.profiles) = 2
    /\ storage.activeProfile = storage.profiles[1].id
    /\ storage.profiles[1].tags = <<"home">>
    /\ storage.profiles[1].icon = "briefcase"
    /\ storage.profiles[1].configs # <<>>
    /\ storage.profiles[2].tags = <<"work">>
    /\ storage.profiles[2].configs =
          <<[key |-> <<"k", "2">>, value |-> <<"a">>, scope |-> "global"]>>
    /\ last.op = "update"
    /\ "configs" \in DOMAIN last.updates

\* the fields of a profile that are its content
ContentFields == {"name", "description", "configs", "tags", "icon"}

AppliedAll(l) == l.op = "apply" /\ l.error \in {"", "SaveFailed"}

\* C26: when applyProfile(id) has returned normally, activeProfile is id,
\* getActiveProfile() finds the profile of that id, and profiles.json holds
\* the pointer; the pointer then changes only at the end of an applyProfile
\* call whose sets all succeeded or in a deleteProfile call of its id; the
\* store has one pointer, which no two of its profiles answer to
C26_ActiveAfterApply ==
    /\ []((last.op = "apply" /\ last.ok)
            => /\ storage.activeProfile = last.id
               /\ GetActiveProfile(storage) = last.id
               /\ HasProfile(storage, last.id)
               /\ file.activeProfile = last.id)
    /\ [](Cardinality({i \in 1..Len(storage.profiles) :
                          storage.profiles[i].id = storage.activeProfile}) <= 1)
    /\ [][(storage.activeProfile # NoId
              /\ storage'.activeProfile # storage.activeProfile)
           => \/ AppliedAll(last') /\ storage'.activeProfile = last'.id
              \/ /\ last'.op = "delete"
                 /\ last'.id = storage.activeProfile
                 /\ storage'.activeProfile = NoId]_vars

\* C27: whatever the operations that ran while an applyProfile call was
\* suspended, activeProfile is unset or is the id of a profile of the store
C27_PointerNeverDangles ==
    storage.activeProfile = NoId \/ HasProfile(storage, storage.activeProfile)

\* the operations of C28
Changing == {"create", "createFromCurrent", "import", "update", "delete"}

\* the last call was one of them and its write failed
WriteFailed(l) == l.op \in Changing /\ "wrote" \in DOMAIN l /\ ~l.wrote

\* the change of the call of this step is in the store of the manager
ChangeInMemory ==
    LET old == storage.profiles
        new == storage'.profiles
    IN  /\ last'.op \in {"create", "createFromCurrent", "import"}
              => /\ Len(new) = Len(old) + 1
                 /\ SubSeq(new, 1, Len(old)) = old
                 /\ new[Len(new)].id = last'.id
                 /\ HasProfile(storage', last'.id)
        /\ last'.op = "delete"
              => /\ Len(new) = Len(old) - 1
                 /\ ~HasProfile(storage', last'.id)
        /\ last'.op = "update"
              => \A index \in 1..Len(old) :
                    (old[index].id = last'.id /\ FindIndex(old, last'.id) = index)
                    => /\ \A f \in DOMAIN last'.updates \ {"modified"} :
                             new[index][f] = last'.updates[f]
                       /\ new[index].modified = now

\* C28: when the write of profiles.json fails in createProfile,
\* importProfile, updateProfile or deleteProfile, the call ends with an
\* error and the store of the manager holds the change, so that the store
\* and profiles.json differ
C28_ChangeNotUndone ==
    /\ [](WriteFailed(last) => (~last.ok /\ storage # file))
    /\ [][(WriteFailed(last') /\ now' = now) => ChangeInMemory]_vars

\* C28, amended: when the write fails the call ends with an error, the
\* store of the manager holds the change and the stamp of the call, and
\* profiles.json is left as it was before the call; the two differ wherever
\* the profiles of the store are not those of profiles.json or the clock has
\* advanced since profiles.json was stamped, and they are the same again
\* after the next write that succeeds
C28_ChangeKeptFileLeft ==
    /\ [](WriteFailed(last) => ~last.ok)
    /\ [][(WriteFailed(last') /\ now' = now)
           => /\ ChangeInMemory
              /\ storage'.lastModified = now
              /\ file' = file
              /\ (storage'.profiles # file.profiles \/ file.lastModified < now)
                    => storage' # file']_vars
    /\ [][(last'.op \in Changing /\ "wrote" \in DOMAIN last' /\ last'.wrote
              /\ now' = now)
           => file' = storage']_vars

\* C28 happens: the write of deleteProfile failed after the clock advanced;
\* the profile is gone from the store and still in profiles.json
C28_Witness ==
    /\ last.op = "delete"
    /\ WriteFailed(last)
    /\ ~last.ok
    /\ ~HasProfile(storage, last.id)
    /\ HasProfile(file, last.id)
    /\ storage.lastModified > file.lastModified

\* C29: where no root is resolvable getCurrentConfigs lists no scope and
\* returns no config, whatever the git configuration holds; compareProfiles
\* then returns every config of the profile in toAdd, in the profile's order,
\* with toUpdate and toRemove empty, and createProfileFromCurrent creates a
\* profile without configs
C29_NoRootNoConfigs ==
    ~hasRoot =>
        /\ Compared =>
              /\ last.queried = {}
              /\ last.current = <<>>
              /\ last.result.toAdd = last.configs
              /\ last.result.toUpdate = <<>>
              /\ last.result.toRemove = <<>>
        /\ last.op = "createFromCurrent" =>
              /\ last.queried = {}
              /\ HasProfile(storage, last.id)
              /\ GetProfile(storage, last.id).configs = <<>>

\* C29 happens: without a root, a snapshot was taken of a git configuration
\* that has a global entry, and a profile that holds this very entry was
\* compared: the entry is to be added
C29_Witness ==
    /\ ~hasRoot
    /\ Compared
    /\ Len(storage.profiles) = 2
    /\ storage.profiles[2].configs = <<>>
    /\ backend.global # <<>>
    /\ Len(last.configs) = 2
    /\ last.configs[1] = [key |-> backend.global[1].key,
                          value |-> backend.global[1].value, scope |-> "global"]
    /\ last.result.toAdd = last.configs

\* C30: compareProfiles and exportProfile, whether they find the profile or
\* not and whatever the git configuration, leave the store of the manager,
\* profiles.json with its lastModified and its activeProfile, and the git
\* configuration as they were, and run no set or unset command
C30_ReadOnly ==
    [][last'.op \in {"compare", "export"}
       => /\ storage' = storage
          /\ file' = file
          /\ file'.lastModified = file.lastModified
          /\ file'.activeProfile = file.activeProfile
          /\ backend' = backend
          /\ ap' = ap
          /\ ap'.attempts = ap.attempts]_vars

\* C30 happens: a comparison found something to reconcile while an
\* applyProfile call was suspended
C30_Witness ==
    /\ Compared
    /\ last.result # EmptyComparison
    /\ backend.local \o backend.global # <<>>
    /\ ap.pc = "loop"
    /\ file = storage

====
